---- MODULE Spec2Model ----
(***************************************************************************)
(* Build orchestration core of the portfolio generator:                    *)
(*   planning_engine.py      TaskGraph, PlanningEngine.create_plan         *)
(*   virtual_filesystem.py   VirtualFilesystem (per-build file store)      *)
(*   build_orchestrator.py   BuildOrchestrator (start_build, the execution *)
(*                           loop, retry_task, regenerate_section)         *)
(*                                                                         *)
(* The orchestrator is asyncio code: a coroutine runs without interruption *)
(* until it suspends.  The one suspension point modelled inside            *)
(* _execute_task is the awaited Generation Worker call; a coroutine created*)
(* with asyncio.create_task starts at some later point.  _emit is modelled *)
(* as appending to the build's event stream within the emitting step.      *)
(*                                                                         *)
(* A path is a sequence of tokens: "/" and "\\" are the separators, every  *)
(* other token is a run of ordinary characters.                            *)
(***************************************************************************)
EXTENDS Integers, Sequences, FiniteSets, TLC

\* ------------------------------------------------------------------ bounds
MaxSections == 2      \* longest explicit section list given to StartBuild
MaxCalls == 2         \* RetryTask / RegenerateSection invocations per run
MaxGraphTasks == 2    \* tasks of a hand-built graph (task graph queries)
MaxSubscribes == 2    \* Subscribe invocations per run
MaxOutputs == 2       \* outputs of one worker result (single-task execution)
MaxVersion == 3       \* highest version a file of the File Store reaches
MaxSnapshots == 2     \* snapshots taken of one File Store
MaxWriters == 3       \* threads writing to one File Store

\* --------------------------------------------------------------- constants
None == "None"

PENDING == "pending"
RUNNING == "running"
COMPLETED == "completed"
FAILED == "failed"
SKIPPED == "skipped"
TaskStatus == {PENDING, RUNNING, COMPLETED, FAILED, SKIPPED}

B_PENDING == "pending"
B_PLANNING == "planning"
B_BUILDING == "building"
B_COMPLETED == "completed"
B_FAILED == "failed"
B_CANCELLED == "cancelled"
BuildStatus == {B_PENDING, B_PLANNING, B_BUILDING, B_COMPLETED, B_FAILED, B_CANCELLED}

StuckError == "Build stuck: dependencies failed"

\* ------------------------------------------------------------ sequence aux
Range(s) == {s[i] : i \in 1..Len(s)}

SeqsUpTo(S, n) == UNION {[1..k -> S] : k \in 0..n}

\* =========================================================================
\* planning_engine.py : TaskGraph
\* =========================================================================

\* BuildTask: the fields the orchestrator reads and writes.
BuildTask(id, type, depends_on, output_files) ==
    [id |-> id, type |-> type, depends_on |-> depends_on, status |-> PENDING,
     output_files |-> output_files, error |-> None]

NoTask == [none |-> TRUE]

\* get_task: scan the list, return the first task with the id, else None.
RECURSIVE get_task_from(_, _, _)
get_task_from(tasks, task_id, i) ==
    IF i > Len(tasks) THEN 0
    ELSE IF tasks[i].id = task_id THEN i
    ELSE get_task_from(tasks, task_id, i + 1)

\* index of the task get_task returns (0 for None)
get_task_index(tasks, task_id) == get_task_from(tasks, task_id, 1)

get_task(tasks, task_id) ==
    LET i == get_task_index(tasks, task_id)
    IN  IF i = 0 THEN NoTask ELSE tasks[i]

\* variant: a dependency id no task carries counts as satisfied
deps_completed_mut(tasks, task) ==
    \A k \in 1..Len(task.depends_on) :
        get_task(tasks, task.depends_on[k]) = NoTask
        \/ get_task(tasks, task.depends_on[k]).status = COMPLETED

\* all(get_task(dep) and get_task(dep).status == COMPLETED for dep in depends_on)
deps_completed(tasks, task) ==
    \A k \in 1..Len(task.depends_on) :
        /\ get_task(tasks, task.depends_on[k]) /= NoTask
        /\ get_task(tasks, task.depends_on[k]).status = COMPLETED

\* get_ready_tasks, as the list of positions of the ready tasks in list order
RECURSIVE ready_from(_, _)
ready_from(tasks, i) ==
    IF i > Len(tasks) THEN <<>>
    ELSE IF tasks[i].status /= PENDING THEN ready_from(tasks, i + 1)
    ELSE IF deps_completed(tasks, tasks[i]) THEN <<i>> \o ready_from(tasks, i + 1)
    ELSE ready_from(tasks, i + 1)

get_ready_tasks(tasks) == ready_from(tasks, 1)

\* variant: a running task counts as finished
is_complete_mut(tasks) ==
    \A i \in 1..Len(tasks) : tasks[i].status \in {COMPLETED, FAILED, SKIPPED, RUNNING}

\* all(t.status in (COMPLETED, FAILED, SKIPPED) for t in tasks)
is_complete(tasks) ==
    \A i \in 1..Len(tasks) : tasks[i].status \in {COMPLETED, FAILED, SKIPPED}

\* =========================================================================
\* virtual_filesystem.py : VirtualFilesystem
\* =========================================================================
SLASH == "/"
BACKSLASH == "\\"

RECURSIVE rstrip_slash(_)
rstrip_slash(path) ==
    IF Len(path) > 0 /\ path[Len(path)] = SLASH
    THEN rstrip_slash(SubSeq(path, 1, Len(path) - 1))
    ELSE path

\* _normalize_path: leading slash, then rstrip("/") unless the path is "/",
\* then every backslash replaced by a slash (in that order).
normalize_path(path) ==
    LET p1 == IF Len(path) > 0 /\ path[1] = SLASH THEN path ELSE <<SLASH>> \o path
        p2 == IF p1 /= <<SLASH>> THEN rstrip_slash(p1) ELSE p1
    IN  [i \in 1..Len(p2) |-> IF p2[i] = BACKSLASH THEN SLASH ELSE p2[i]]

\* _files: normalized path -> VFSFile (content, version)
vfs_write(files, path, content) ==
    LET p == normalize_path(path)
    IN  IF p \in DOMAIN files
        THEN [files EXCEPT ![p] = [content |-> content, version |-> @.version + 1]]
        ELSE [q \in DOMAIN files \cup {p} |->
                 IF q = p THEN [content |-> content, version |-> 1] ELSE files[q]]

\* variant: the entry is looked for under the path as given
vfs_delete_mut(files, path) == [q \in DOMAIN files \ {path} |-> files[q]]

\* delete: the files that are left
vfs_delete(files, path) ==
    LET p == normalize_path(path)
    IN  [q \in DOMAIN files \ {p} |-> files[q]]

vfs_get_all_files(files) == [q \in DOMAIN files |-> files[q].content]

\* read: the content of the file, or None
vfs_read(files, path) ==
    LET p == normalize_path(path)
    IN  IF p \in DOMAIN files THEN files[p].content ELSE None

\* exists: path in self._files
vfs_exists(files, path) == normalize_path(path) \in DOMAIN files

\* what delete returns: True if the file was there
vfs_deleted(files, path) == normalize_path(path) \in DOMAIN files

\* create_snapshot: the path -> content map is appended; the index returned
\* is that of the new snapshot, counted from 0
create_snapshot(files, snapshots) ==
    [snapshots |-> Append(snapshots, [q \in DOMAIN files |-> files[q].content]),
     index |-> Len(snapshots)]

\* if snapshot_index < 0 or snapshot_index >= len(self._snapshots): return False
rollback_rejects(snapshots, snapshot_index) ==
    snapshot_index < 0 \/ snapshot_index >= Len(snapshots)

\* variant: the snapshot's files are put over the current ones
rollback_mut(files, snapshot) ==
    [q \in DOMAIN files \cup DOMAIN snapshot |->
        IF q \in DOMAIN snapshot THEN [content |-> snapshot[q], version |-> 1]
        ELSE files[q]]

\* rollback: _files is replaced by new files made from the snapshot
rollback(files, snapshot) ==
    [q \in DOMAIN snapshot |-> [content |-> snapshot[q], version |-> 1]]

\* ---- threads calling write: with self._lock
Writers == 1..MaxWriters

\* the lock's holder when no thread holds it
Unlocked == 0

\* a thread that has not called write
WriterIdle == [pc |-> "idle", path |-> <<>>, content |-> None]

\* variant: the lock is taken without waiting for its holder
lock_free_mut(holder, t) == TRUE

\* RLock: free, or held by the calling thread itself
lock_free(holder, t) == holder = Unlocked \/ holder = t

EmptyFiles == [q \in {} |-> [content |-> "", version |-> 1]]

\* =========================================================================
\* planning_engine.py : PlanningEngine
\* =========================================================================
File2(a) == <<SLASH, a>>
File3(a, b) == <<SLASH, a, SLASH, b>>

\* PORTFOLIO_SECTIONS: section kind -> advisory file list
SectionKinds == {"hero", "about", "skills", "experience", "projects", "education", "contact"}

SectionFiles(s) ==
    CASE s = "hero" -> <<File3("components", "Hero.tsx"), File3("styles", "hero.css")>>
      [] s = "about" -> <<File3("components", "About.tsx"), File3("styles", "about.css")>>
      [] s = "skills" -> <<File3("components", "Skills.tsx"), File3("styles", "skills.css")>>
      [] s = "experience" -> <<File3("components", "Experience.tsx"), File3("styles", "experience.css")>>
      [] s = "projects" -> <<File3("components", "Projects.tsx"), File3("styles", "projects.css")>>
      [] s = "education" -> <<File3("components", "Education.tsx"), File3("styles", "education.css")>>
      [] s = "contact" -> <<File3("components", "Contact.tsx"), File3("styles", "contact.css")>>

\* A list element that is not hashable (a JSON list or object): the test
\* "s in PORTFOLIO_SECTIONS" raises TypeError on it.
Unhashable == "<unhashable>"

InSeq(x, s) == \E i \in 1..Len(s) : s[i] = x

\* resume_data is None or a record saying which resume fields are non-empty.
NoResume == [none |-> TRUE]

\* variant: work experience alone does not bring in the experience section
infer_sections_mut(resume_data, user_prompt) ==
    LET base == IF resume_data /= NoResume
                THEN <<"hero", "about">>
                     \o (IF resume_data.skills THEN <<"skills">> ELSE <<>>)
                     \o (IF resume_data.projects THEN <<"projects">> ELSE <<>>)
                     \o (IF resume_data.education THEN <<"education">> ELSE <<>>)
                ELSE <<"hero", "about", "skills", "experience", "projects">>
    IN  base \o <<"contact">>

infer_sections(resume_data, user_prompt) ==
    LET base == IF resume_data /= NoResume
                THEN <<"hero", "about">>
                     \o (IF resume_data.skills THEN <<"skills">> ELSE <<>>)
                     \o (IF resume_data.work_experience THEN <<"experience">> ELSE <<>>)
                     \o (IF resume_data.projects THEN <<"projects">> ELSE <<>>)
                     \o (IF resume_data.education THEN <<"education">> ELSE <<>>)
                ELSE <<"hero", "about", "skills", "experience", "projects">>
    IN  base \o <<"contact">>

\* sections is NoSections (None) or SomeSections(list); an empty list is falsy.
NoSections == [none |-> TRUE]
SomeSections(list) == [list |-> list]

\* variant: a list with no known kind falls back to the inferred sections
selected_sections_mut(resume_data, user_prompt, sections) ==
    IF sections /= NoSections /\ Len(sections.list) > 0
       /\ SelectSeq(sections.list, LAMBDA s : s \in SectionKinds) /= <<>>
    THEN SelectSeq(sections.list, LAMBDA s : s \in SectionKinds)
    ELSE infer_sections(resume_data, user_prompt)

selected_sections(resume_data, user_prompt, sections) ==
    IF sections /= NoSections /\ Len(sections.list) > 0
    THEN SelectSeq(sections.list, LAMBDA s : s \in SectionKinds)
    ELSE infer_sections(resume_data, user_prompt)

\* the membership test of the list comprehension raises on an unhashable item
create_plan_raises(sections) ==
    sections /= NoSections /\ Len(sections.list) > 0 /\ InSeq(Unhashable, sections.list)

\* variant: every section task depends on the task before the first section
RECURSIVE section_tasks_mut(_, _)
section_tasks_mut(selected, prev_task_id) ==
    IF selected = <<>> THEN <<>>
    ELSE <<BuildTask(Head(selected), "section", <<prev_task_id>>, SectionFiles(Head(selected)))>>
         \o section_tasks_mut(Tail(selected), prev_task_id)

RECURSIVE section_tasks(_, _)
section_tasks(selected, prev_task_id) ==
    IF selected = <<>> THEN <<>>
    ELSE <<BuildTask(Head(selected), "section", <<prev_task_id>>, SectionFiles(Head(selected)))>>
         \o section_tasks(Tail(selected), Head(selected))

create_plan(build_id, resume_data, user_prompt, style, sections) ==
    LET selected == selected_sections(resume_data, user_prompt, sections)
        last == IF selected = <<>> THEN "style" ELSE selected[Len(selected)]
    IN  [build_id |-> build_id,
         tasks |->
            <<BuildTask("init", "setup", <<>>,
                        <<File2("index.html"), File3("styles", "globals.css"),
                          File3("scripts", "main.js")>>),
              BuildTask("style", "style", <<"init">>,
                        <<File3("styles", "theme.css"), File3("styles", "variables.css")>>)>>
            \o section_tasks(selected, "style")
            \o <<BuildTask("finalize", "finalize", <<last>>, <<File2("index.html")>>)>>]

\* =========================================================================
\* build_orchestrator.py : BuildOrchestrator
\* =========================================================================
VARIABLES
    builds,      \* ids registered in _builds
    status,      \* Build.status of the build
    error,       \* Build.error
    task_graph,  \* Build.task_graph: NoGraph (None) or [build_id, tasks]
    files,       \* Build.vfs._files
    events,      \* the events handed to _emit by the latest step, in order
    loops,       \* the _execute_build coroutines created so far
    calls,       \* the retry_task / regenerate_section coroutines in flight
    ncalls,      \* number of retry_task / regenerate_section invocations
    returned,    \* what retry_task / regenerate_section returned in the latest step,
                 \* or the unsubscribe call the latest step made
    resumed,     \* history: a retry re-ran a task of a failed build with success
                 \*          and no worker call has failed since
    result,      \* the answer of the latest task graph query or File Store call
    listeners,   \* _event_listeners[build id]: the callbacks, in subscription order
    received,    \* history: what each callback has been called with, in order
    snapshots,   \* Build.vfs._snapshots: the path -> content maps saved so far
    lock,        \* Build.vfs._lock: the thread that holds it, or Unlocked
    writers      \* the threads calling vfs.write, each with its position

vars == <<builds, status, error, task_graph, files, events, loops, calls,
          ncalls, returned, resumed, result, listeners, received,
          snapshots, lock, writers>>

\* the File Store's state beside _files
store_vars == <<snapshots, lock, writers>>

NoGraph == [none |-> TRUE]
NoRet == [none |-> TRUE]
NoResult == [op |-> "none"]

\* the id uuid4 gives the build, and an id no build has
BuildId == "b1"
BuildIds == {"b1", "b2"}

\* the callbacks a subscriber may register, each with what it does when called
Callbacks == {[id |-> "s1", kind |-> "ok"], [id |-> "s2", kind |-> "raise"],
              [id |-> "s3", kind |-> "hang"]}
CallbackIds == {cb.id : cb \in Callbacks}

Tasks == task_graph.tasks

Event(type, data) == [type |-> type, data |-> data]

\* The build as one value: what a step of a coroutine reads and writes.
\* (events: those the step has emitted so far.)
\* (listeners, received: the callbacks and what they have been called with;
\* hung: the coroutine is suspended for ever inside a callback, and "at" is
\* the build as it was when that happened.)
Core(w) == [status |-> w.status, error |-> w.error, tasks |-> w.tasks, files |-> w.files]

World == [status |-> status, error |-> error, tasks |-> Tasks,
          files |-> files, events |-> <<>>,
          listeners |-> listeners, received |-> received,
          hung |-> FALSE, at |-> [none |-> TRUE]]

\* What a callback does with an event: "ok" returns, "raise" raises an
\* Exception, "hang" is a coroutine function whose call never completes.
\* variant: the call is not inside try/except, an exception ends the coroutine
callback_stops_mut(cb) == cb.kind \in {"hang", "raise"}

\* try: await callback(event) / callback(event); except Exception: print
callback_stops(cb) == cb.kind = "hang"

\* the one element of a singleton set (used to evaluate a value once)
The(S) == CHOOSE x \in S : TRUE

\* for callback in listeners: ... from the k-th callback on
RECURSIVE call_listeners(_, _, _)
call_listeners(w, e, k) ==
    The({IF k > Len(v.listeners) THEN v
         ELSE IF callback_stops(v.listeners[k])
              THEN [v EXCEPT !.received[v.listeners[k].id] = Append(@, e),
                             !.hung = TRUE, !.at = Core(v)]
              ELSE call_listeners([v EXCEPT !.received[v.listeners[k].id] = Append(@, e)],
                                  e, k + 1) : v \in {w}})

\* _emit; a coroutine suspended for ever in a callback emits nothing more
emit(w, type, data) ==
    The({IF v.hung THEN v
         ELSE call_listeners([v EXCEPT !.events = Append(@, Event(type, data))],
                             Event(type, data), 1) : v \in {w}})

\* variant: the status is set and the error is left as it was
set_task_mut(w, i, st, err) == [w EXCEPT !.tasks[i].status = st]

set_task(w, i, st, err) ==
    [w EXCEPT !.tasks[i].status = st, !.tasks[i].error = err]

\* Results the Generation Worker may give: success with outputs, success=false
\* with an error, or an exception.
Output(path, content) == [file_path |-> path, content |-> content]

WorkerResults ==
    { [kind |-> "ok", outputs |-> <<Output(<<"index.html">>, "html"),
                                    Output(File3("styles", "theme.css"), "css")>>],
      [kind |-> "fail", outputs |-> <<>>, error |-> "worker error"],
      [kind |-> "raise", outputs |-> <<>>, error |-> "exception"] }

\* variant: the task is marked running without task_started being emitted
exec_start_mut(w, i) == [w EXCEPT !.tasks[i].status = RUNNING]

\* _execute_task up to the awaited worker call
exec_start(w, i) ==
    The({emit([v EXCEPT !.tasks[i].status = RUNNING],
              "task_started", [task_id |-> v.tasks[i].id]) : v \in {w}})

\* variant: file_written is emitted but the file is not written
RECURSIVE write_outputs_mut(_, _)
write_outputs_mut(w, outputs) ==
    IF outputs = <<>> THEN w
    ELSE write_outputs_mut(emit(w, "file_written",
                                [path |-> Head(outputs).file_path,
                                 content |-> Head(outputs).content]),
                           Tail(outputs))

\* for output in result.outputs: vfs.write, emit file_written
RECURSIVE write_outputs(_, _)
write_outputs(w, outputs) ==
    IF outputs = <<>> THEN w
    ELSE LET o == Head(outputs)
         IN  write_outputs(
                 emit([w EXCEPT !.files = vfs_write(@, o.file_path, o.content)],
                      "file_written", [path |-> o.file_path, content |-> o.content]),
                 Tail(outputs))

\* variant: a failed attempt clears the File Store
exec_finish_mut(w, i, r) ==
    The({IF r.kind = "ok"
         THEN emit([write_outputs(v, r.outputs) EXCEPT
                       !.tasks[i].status = COMPLETED,
                       !.tasks[i].output_files =
                           [k \in 1..Len(r.outputs) |-> r.outputs[k].file_path]],
                   "task_completed", [task_id |-> v.tasks[i].id])
         ELSE emit([set_task(v, i, FAILED, r.error) EXCEPT !.files = EmptyFiles],
                   "task_failed", [task_id |-> v.tasks[i].id, error |-> r.error])
         : v \in {w}})

\* _execute_task from the worker's answer on
exec_finish(w, i, r) ==
    The({IF r.kind = "ok"
         THEN emit([write_outputs(v, r.outputs) EXCEPT
                       !.tasks[i].status = COMPLETED,
                       !.tasks[i].output_files =
                           [k \in 1..Len(r.outputs) |-> r.outputs[k].file_path]],
                   "task_completed", [task_id |-> v.tasks[i].id])
         ELSE emit(set_task(v, i, FAILED, r.error),
                   "task_failed", [task_id |-> v.tasks[i].id, error |-> r.error])
         : v \in {w}})

\* ---- _execute_build
LoopCreated == [pc |-> "created", ready |-> <<>>, k |-> 0]
LoopDone == [pc |-> "done", ready |-> <<>>, k |-> 0]
LoopSpin == [pc |-> "spin", ready |-> <<>>, k |-> 0]
LoopHung == [pc |-> "hung", ready |-> <<>>, k |-> 0]

\* variant: the loop without its test for pending tasks
has_pending_mut(tasks) == FALSE

\* pending = [t for t in tasks if t.status == PENDING]; if pending: ...
has_pending(tasks) == \E i \in 1..Len(tasks) : tasks[i].status = PENDING

\* variant of the code after the while loop: the build is completed without the test of its status
complete_build_mut(w) ==
    emit([w EXCEPT !.status = B_COMPLETED],
         "build_completed", [status |-> "success", files |-> DOMAIN w.files])

\* variant: the loop ends without announcing the outcome
complete_build_quiet(w) ==
    IF w.status /= B_FAILED THEN [w EXCEPT !.status = B_COMPLETED] ELSE w

\* the code after the while loop
complete_build(w) ==
    The({IF v.status /= B_FAILED
         THEN emit([v EXCEPT !.status = B_COMPLETED],
                   "build_completed", [status |-> "success", files |-> DOMAIN v.files])
         ELSE emit(v, "build_failed", [error |-> v.error]) : v \in {w}})

\* _execute_build before its while loop
execute_build_begin(w) ==
    emit([w EXCEPT !.status = B_BUILDING], "build_phase_started", [phase |-> "building"])

\* From the while test to the next suspension or to the end of the coroutine.
\* With no ready task, no pending task and a task still running the loop
\* takes "continue" for ever without awaiting ("spin").
loop_top(w) ==
    The({IF is_complete(v.tasks)
         THEN [w |-> complete_build(v), loop |-> LoopDone]
         ELSE LET ready == get_ready_tasks(v.tasks)
              IN  IF ready = <<>>
                  THEN IF has_pending(v.tasks)
                       THEN [w |-> complete_build([v EXCEPT !.status = B_FAILED,
                                                            !.error = StuckError]),
                             loop |-> LoopDone]
                       ELSE [w |-> v, loop |-> LoopSpin]
                  ELSE [w |-> exec_start(v, ready[1]),
                        loop |-> [pc |-> "worker", ready |-> ready, k |-> 1]] : v \in {w}})

\* for task in ready_tasks: the next task of the round, else the while test
loop_next(w, loop) ==
    IF loop.k < Len(loop.ready)
    THEN [w |-> exec_start(w, loop.ready[loop.k + 1]),
          loop |-> [loop EXCEPT !.k = @ + 1]]
    ELSE loop_top(w)

\* the build after a step of a coroutine: as the step left it, or as it was
\* when the coroutine was suspended for ever inside a callback
Left(w) == IF w.hung THEN w.at ELSE Core(w)

SetWorld(w) ==
    /\ status' = Left(w).status
    /\ error' = Left(w).error
    /\ task_graph' = [task_graph EXCEPT !.tasks = Left(w).tasks]
    /\ files' = Left(w).files
    /\ events' = w.events
    /\ received' = w.received
    /\ listeners' = listeners

\* where the stepping _execute_build coroutine is after the step
LoopAfter(n) == IF n.w.hung THEN LoopHung ELSE n.loop

\* A coroutine that never awaits keeps the event loop: nothing else runs.
Blocked == \E l \in 1..Len(loops) : loops[l].pc = "spin"

\* ---- start_build
StartSectionItems == {"hero", "bogus", Unhashable}
StartSections == {SomeSections(l) : l \in SeqsUpTo(StartSectionItems, MaxSections) \ {<<>>}}

\* Build(...): status pending, no error, no task graph, an empty File Store
NewBuild == [status |-> B_PENDING, error |-> None, tasks |-> <<>>,
             files |-> EmptyFiles, events |-> <<>>,
             listeners |-> listeners, received |-> received,
             hung |-> FALSE, at |-> [none |-> TRUE]]

\* variant: the planning failure is announced but not recorded in the build
plan_failed_mut(w, e) == emit(w, "build_failed", [error |-> e])

\* except Exception as e: status failed, error = str(e), emit build_failed
plan_failed(w, e) ==
    emit([w EXCEPT !.status = B_FAILED, !.error = e], "build_failed", [error |-> e])

\* variant: await self._execute_build(build), up to its first suspension
create_task_mut(w) == loop_top(execute_build_begin(w))

\* asyncio.create_task(self._execute_build(build)): the coroutine is
\* scheduled and runs only after the caller has given up the event loop
create_task(w) == [w |-> w, loop |-> LoopCreated]

\* start_build. The build id is made inside it (uuid4), so no callback is
\* registered under it before it returns: no _emit suspends and it is one step.
StartBuild(resume_data, user_prompt, style, sections) ==
    /\ builds = {}
    /\ listeners = <<>>
    /\ builds' = {BuildId}
    /\ LET w0 == emit(NewBuild, "build_started", [build_id |-> BuildId])
           w1 == emit([w0 EXCEPT !.status = B_PLANNING], "planning_started", <<>>)
       IN  IF create_plan_raises(sections)
           THEN LET w2 == plan_failed(w1, "unhashable type")
                IN  /\ status' = w2.status
                    /\ error' = w2.error
                    /\ task_graph' = NoGraph
                    /\ files' = w2.files
                    /\ events' = w2.events
                    /\ loops' = loops
           ELSE LET g == create_plan(BuildId, resume_data, user_prompt, style, sections)
                    w2 == emit([w1 EXCEPT !.tasks = g.tasks], "planning_completed",
                               [tasks |-> [i \in 1..Len(g.tasks) |-> g.tasks[i].id]])
                    n == create_task(w2)
                IN  /\ status' = n.w.status
                    /\ error' = n.w.error
                    /\ task_graph' = [g EXCEPT !.tasks = n.w.tasks]
                    /\ files' = n.w.files
                    /\ events' = n.w.events
                    /\ loops' = Append(loops, n.loop)
    /\ returned' = NoRet
    /\ UNCHANGED <<calls, ncalls, resumed, result, listeners, received>>
    /\ UNCHANGED store_vars

\* the created _execute_build coroutine starts running
LoopStart(l) ==
    /\ ~Blocked
    /\ loops[l].pc = "created"
    /\ \E n \in {loop_top(execute_build_begin(World))} :
           /\ SetWorld(n.w)
           /\ loops' = [loops EXCEPT ![l] = LoopAfter(n)]
    /\ returned' = NoRet
    /\ UNCHANGED <<builds, calls, ncalls, resumed, result>>
    /\ UNCHANGED store_vars

\* the worker call awaited by the loop's _execute_task returns r
LoopWorkerReturn(l, r) ==
    /\ ~Blocked
    /\ loops[l].pc = "worker"
    /\ \E n \in {loop_next(exec_finish(World, loops[l].ready[loops[l].k], r), loops[l])} :
           /\ SetWorld(n.w)
           /\ loops' = [loops EXCEPT ![l] = LoopAfter(n)]
    /\ returned' = NoRet
    /\ resumed' = (resumed /\ r.kind = "ok")
    /\ UNCHANGED <<builds, calls, ncalls, result>>
    /\ UNCHANGED store_vars

\* while not is_complete(): ready == [] and pending == []: continue
LoopSpinStep(l) ==
    /\ loops[l].pc = "spin"
    /\ UNCHANGED vars

\* ---- retry_task / regenerate_section
Ret(op, build_id, task_id, value) ==
    [op |-> op, build_id |-> build_id, task_id |-> task_id, value |-> value]

Call(op, build_id, task_id, i) ==
    [op |-> op, build_id |-> build_id, task_id |-> task_id, task |-> i]

\* a retry_task / regenerate_section coroutine suspended for ever in a callback
HungCall == [op |-> "hung", build_id |-> None, task_id |-> None, task |-> 0]

CallAfter(w, call) == IF w.hung THEN HungCall ELSE call

RemoveAt(s, c) == [j \in 1..(Len(s) - 1) |-> IF j < c THEN s[j] ELSE s[j + 1]]

\* task ids a caller may name: those of the graph and one no graph has
CallTaskIds ==
    {"ghost"} \cup (IF task_graph = NoGraph THEN {"init"}
                    ELSE {Tasks[i].id : i \in 1..Len(Tasks)})

\* build = _builds.get(build_id); if not build or not build.task_graph
no_build(build_id) == build_id \notin builds \/ task_graph = NoGraph

\* variant: a completed task is accepted as well
retry_rejects_mut(build_id, task_id) ==
    \/ no_build(build_id)
    \/ get_task_index(Tasks, task_id) = 0
    \/ Tasks[get_task_index(Tasks, task_id)].status \notin {FAILED, COMPLETED}

\* if not task or task.status != FAILED: return False
retry_rejects(build_id, task_id) ==
    \/ no_build(build_id)
    \/ get_task_index(Tasks, task_id) = 0
    \/ Tasks[get_task_index(Tasks, task_id)].status /= FAILED

\* retry_task up to "return False" or to the awaited worker call
RetryTask(build_id, task_id) ==
    /\ ~Blocked
    /\ ncalls < MaxCalls
    /\ ncalls' = ncalls + 1
    /\ IF retry_rejects(build_id, task_id)
       THEN /\ returned' = Ret("retry", build_id, task_id, FALSE)
            /\ events' = <<>>
            /\ UNCHANGED <<status, error, task_graph, files, calls, listeners, received>>
       ELSE \E i \in {get_task_index(Tasks, task_id)} :
            \E w1 \in {exec_start(set_task(World, i, PENDING, None), i)} :
                /\ SetWorld(w1)
                /\ calls' = Append(calls, CallAfter(w1, Call("retry", build_id, task_id, i)))
                /\ returned' = NoRet
    /\ UNCHANGED <<builds, loops, resumed, result>>
    /\ UNCHANGED store_vars

\* variant: the build is resumed when it is completed as well
resume_needed_mut(w) == w.status \in {B_FAILED, B_COMPLETED}

\* variant: the build is resumed when it is building as well
resume_needed_building(w) == w.status \in {B_FAILED, B_BUILDING}

\* if build.status == BuildStatus.FAILED: (status building, a new loop)
resume_needed(w) == w.status = B_FAILED

\* retry_task from the worker's answer r to "return True"
RetryReturn(c, r) ==
    /\ ~Blocked
    /\ calls[c].op = "retry"
    /\ \E w1 \in {exec_finish(World, calls[c].task, r)} :
           IF w1.hung
           THEN /\ SetWorld(w1)
                /\ loops' = loops
                /\ resumed' = FALSE
                /\ returned' = NoRet
                /\ calls' = [calls EXCEPT ![c] = HungCall]
           ELSE /\ IF resume_needed(w1)
                   THEN /\ SetWorld([w1 EXCEPT !.status = B_BUILDING])
                        /\ loops' = Append(loops, LoopCreated)
                        /\ resumed' = (r.kind = "ok")
                   ELSE /\ SetWorld(w1)
                        /\ loops' = loops
                        /\ resumed' = (resumed /\ r.kind = "ok")
                /\ returned' = Ret("retry", calls[c].build_id, calls[c].task_id, TRUE)
                /\ calls' = RemoveAt(calls, c)
    /\ UNCHANGED <<builds, ncalls, result>>
    /\ UNCHANGED store_vars

\* for file_path in task.output_files: build.vfs.delete(file_path)
RECURSIVE delete_files(_, _)
delete_files(fs, paths) ==
    IF paths = <<>> THEN fs
    ELSE delete_files(vfs_delete(fs, Head(paths)), Tail(paths))

\* regenerate_section up to "return False" or to the awaited worker call.
\* (new_prompt only goes into task.context, which the worker alone reads.)
RegenerateSection(build_id, section_id) ==
    /\ ~Blocked
    /\ ncalls < MaxCalls
    /\ ncalls' = ncalls + 1
    /\ IF no_build(build_id) \/ get_task_index(Tasks, section_id) = 0
       THEN /\ returned' = Ret("regenerate", build_id, section_id, FALSE)
            /\ events' = <<>>
            /\ UNCHANGED <<status, error, task_graph, files, calls, listeners, received>>
       ELSE \E i \in {get_task_index(Tasks, section_id)} :
            \E w2 \in {exec_start([World EXCEPT
                                      !.files = delete_files(@, Tasks[i].output_files),
                                      !.tasks[i].status = PENDING,
                                      !.tasks[i].error = None,
                                      !.tasks[i].output_files = <<>>], i)} :
                /\ SetWorld(w2)
                /\ calls' = Append(calls,
                                   CallAfter(w2, Call("regenerate", build_id, section_id, i)))
                /\ returned' = NoRet
    /\ UNCHANGED <<builds, loops, resumed, result>>
    /\ UNCHANGED store_vars

\* regenerate_section from the worker's answer r to "return True"
RegenerateReturn(c, r) ==
    /\ ~Blocked
    /\ calls[c].op = "regenerate"
    /\ \E w1 \in {exec_finish(World, calls[c].task, r)} :
           /\ SetWorld(w1)
           /\ IF w1.hung
              THEN returned' = NoRet /\ calls' = [calls EXCEPT ![c] = HungCall]
              ELSE /\ returned' = Ret("regenerate", calls[c].build_id, calls[c].task_id, TRUE)
                   /\ calls' = RemoveAt(calls, c)
    /\ resumed' = (resumed /\ r.kind = "ok")
    /\ UNCHANGED <<builds, loops, ncalls, result>>
    /\ UNCHANGED store_vars

\* ---- subscribe / unsubscribe
\* history: the entry put in a callback's record when it is registered, with
\* the ids of the tasks that are running at that moment
Subscribed(tasks) ==
    Event("subscribed",
          [running |-> {tasks[i].id : i \in {j \in 1..Len(tasks) : tasks[j].status = RUNNING}}])

SubscribeCount ==
    Cardinality(UNION {{<<c, k>> : k \in {j \in 1..Len(received[c]) :
                                              received[c][j].type = "subscribed"}} :
                       c \in CallbackIds})

\* subscribe(build_id, callback): the callback is appended to the build's
\* list (twice if it is registered twice). A subscriber learns the build id
\* from the Build that start_build returned.
Subscribe(build_id, cb) ==
    /\ ~Blocked
    /\ build_id \in builds
    /\ SubscribeCount < MaxSubscribes
    /\ listeners' = Append(listeners, cb)
    /\ received' = [received EXCEPT ![cb.id] =
                        Append(@, Subscribed(IF task_graph = NoGraph THEN <<>> ELSE Tasks))]
    /\ events' = <<>>
    /\ returned' = NoRet
    /\ UNCHANGED <<builds, status, error, task_graph, files, loops, calls, ncalls,
                   resumed, result>>
    /\ UNCHANGED store_vars

\* variant: list.remove(callback), which drops the first entry only
RECURSIVE without_mut(_, _)
without_mut(list, cb) ==
    IF list = <<>> THEN <<>>
    ELSE IF Head(list) = cb THEN Tail(list)
    ELSE <<Head(list)>> \o without_mut(Tail(list), cb)

\* [cb for cb in listeners if cb != callback]
without(list, cb) == SelectSeq(list, LAMBDA x : x /= cb)

\* unsubscribe(build_id, callback): every entry equal to the callback is
\* dropped from the build's list (the list is replaced); with no such entry,
\* or for a build id without a list, nothing changes. The call is recorded
\* in returned (history).
Unsubscribe(build_id, cb) ==
    /\ ~Blocked
    /\ BuildId \in builds
    /\ listeners' = IF build_id = BuildId THEN without(listeners, cb) ELSE listeners
    /\ events' = <<>>
    /\ returned' = Ret("unsubscribe", build_id, cb.id, None)
    /\ UNCHANGED <<builds, status, error, task_graph, files, loops, calls, ncalls,
                   resumed, result, received>>
    /\ UNCHANGED store_vars

\* ---- the orchestrator with one build
Init ==
    /\ builds = {}
    /\ status = B_PENDING
    /\ error = None
    /\ task_graph = NoGraph
    /\ files = EmptyFiles
    /\ events = <<>>
    /\ loops = <<>>
    /\ calls = <<>>
    /\ ncalls = 0
    /\ returned = NoRet
    /\ resumed = FALSE
    /\ result = NoResult
    /\ listeners = <<>>
    /\ received = [c \in CallbackIds |-> <<>>]
    /\ snapshots = <<>>
    /\ lock = Unlocked
    /\ writers = [t \in Writers |-> WriterIdle]

Next ==
    \/ \E sections \in StartSections : StartBuild(NoResume, None, "modern", sections)
    \/ \E l \in 1..Len(loops) : LoopStart(l)
    \/ \E l \in 1..Len(loops), r \in WorkerResults : LoopWorkerReturn(l, r)
    \/ \E l \in 1..Len(loops) : LoopSpinStep(l)
    \/ \E b \in BuildIds, t \in CallTaskIds : RetryTask(b, t)
    \/ \E c \in 1..Len(calls), r \in WorkerResults : RetryReturn(c, r)
    \/ \E b \in BuildIds, t \in CallTaskIds : RegenerateSection(b, t)
    \/ \E c \in 1..Len(calls), r \in WorkerResults : RegenerateReturn(c, r)

Spec == Init /\ [][Next]_vars

\* ---- the execution loop alone: no RetryTask, no RegenerateSection
LoopSectionItems == {"hero", "contact", "bogus", Unhashable}
LoopSections == {SomeSections(l) : l \in SeqsUpTo(LoopSectionItems, MaxSections) \ {<<>>}}

LoopNext ==
    \/ \E sections \in LoopSections : StartBuild(NoResume, None, "modern", sections)
    \/ \E l \in 1..Len(loops) : LoopStart(l)
    \/ \E l \in 1..Len(loops), r \in WorkerResults : LoopWorkerReturn(l, r)

LoopSpec == Init /\ [][LoopNext]_vars

\* The event loop runs a created coroutine, and every worker call returns.
FairLoopSpec ==
    /\ Init
    /\ [][LoopNext]_vars
    /\ WF_vars(\E l \in 1..Len(loops) : LoopStart(l))
    /\ WF_vars(\E l \in 1..Len(loops), r \in WorkerResults : LoopWorkerReturn(l, r))

\* ---- the execution loop observed by subscribers
SubSections == {SomeSections(<<"hero">>)}

SubNext ==
    \/ \E sections \in SubSections : StartBuild(NoResume, None, "modern", sections)
    \/ \E l \in 1..Len(loops) : LoopStart(l)
    \/ \E l \in 1..Len(loops), r \in WorkerResults : LoopWorkerReturn(l, r)
    \/ \E cb \in Callbacks : Subscribe(BuildId, cb)
    \/ \E b \in BuildIds, cb \in Callbacks : Unsubscribe(b, cb)

SubSpec == Init /\ [][SubNext]_vars

\* The event loop runs a created coroutine, and every worker call returns.
FairSubSpec ==
    /\ Init
    /\ [][SubNext]_vars
    /\ WF_vars(\E l \in 1..Len(loops) : LoopStart(l))
    /\ WF_vars(\E l \in 1..Len(loops), r \in WorkerResults : LoopWorkerReturn(l, r))

\* ---- single-task execution with any worker result: paths as the worker
\* gives them (with or without leading and trailing slash), repeated paths,
\* no output at all
OutputItems == {Output(<<"a">>, "x"), Output(<<"/", "a", "/">>, "y"), Output(<<"b">>, "x")}

OutputResults ==
    {[kind |-> "ok", outputs |-> o] : o \in SeqsUpTo(OutputItems, MaxOutputs)}
    \cup {[kind |-> "fail", outputs |-> <<>>, error |-> "worker error"]}

\* a list naming no known section: the plan is init, style, finalize
OutputSections == {SomeSections(<<"bogus">>)}

OutputNext ==
    \/ \E sections \in OutputSections : StartBuild(NoResume, None, "modern", sections)
    \/ \E l \in 1..Len(loops) : LoopStart(l)
    \/ \E l \in 1..Len(loops), r \in OutputResults : LoopWorkerReturn(l, r)

OutputSpec == Init /\ [][OutputNext]_vars

\* ---- task graph queries on hand-built graphs, under any statuses
GraphDeps == {<<>>, <<"a">>, <<"b">>, <<"zz">>, <<"a", "b">>, <<"a", "zz">>}
GraphTasks == {BuildTask(id, "section", deps, <<>>) : id \in {"a", "b"}, deps \in GraphDeps}

GraphInit ==
    /\ builds = {BuildId}
    /\ status = B_PENDING
    /\ error = None
    /\ task_graph \in {[build_id |-> BuildId, tasks |-> ts] :
                          ts \in SeqsUpTo(GraphTasks, MaxGraphTasks)}
    /\ files = EmptyFiles
    /\ events = <<>>
    /\ loops = <<>>
    /\ calls = <<>>
    /\ ncalls = 0
    /\ returned = NoRet
    /\ resumed = FALSE
    /\ result = NoResult
    /\ listeners = <<>>
    /\ received = [c \in CallbackIds |-> <<>>]
    /\ snapshots = <<>>
    /\ lock = Unlocked
    /\ writers = [t \in Writers |-> WriterIdle]

GraphFrame ==
    UNCHANGED <<builds, status, error, files, events, loops, calls, ncalls,
                returned, resumed, listeners, received, snapshots, lock, writers>>

SetStatus(i, st) ==
    /\ task_graph' = [task_graph EXCEPT !.tasks[i].status = st]
    /\ result' = NoResult
    /\ GraphFrame

GetReadyTasks ==
    /\ result' = [op |-> "get_ready_tasks", value |-> get_ready_tasks(Tasks)]
    /\ UNCHANGED task_graph
    /\ GraphFrame

IsComplete ==
    /\ result' = [op |-> "is_complete", value |-> is_complete(Tasks)]
    /\ UNCHANGED task_graph
    /\ GraphFrame

GraphNext ==
    \/ \E i \in 1..Len(Tasks), st \in TaskStatus : SetStatus(i, st)
    \/ GetReadyTasks
    \/ IsComplete

GraphSpec == GraphInit /\ [][GraphNext]_vars

\* ---- the File Store called by one caller: any sequence of calls
\* paths as callers give them: two spellings of one file, and one that ends
\* with a backslash
VfsPaths == {<<"a">>, <<"/", "a", "/">>, <<"a", BACKSLASH>>}
VfsContents == {"1", "2"}

VfsFrame ==
    UNCHANGED <<builds, status, error, task_graph, events, loops, calls, ncalls,
                returned, resumed, listeners, received, lock, writers>>

Write(path, content) ==
    /\ vfs_exists(files, path) => files[normalize_path(path)].version < MaxVersion
    /\ files' = vfs_write(files, path, content)
    /\ result' = [op |-> "write", path |-> path, content |-> content,
                  value |-> files'[normalize_path(path)]]
    /\ UNCHANGED snapshots
    /\ VfsFrame

Read(path) ==
    /\ result' = [op |-> "read", path |-> path, value |-> vfs_read(files, path)]
    /\ UNCHANGED <<files, snapshots>>
    /\ VfsFrame

Delete(path) ==
    /\ files' = vfs_delete(files, path)
    /\ result' = [op |-> "delete", path |-> path, value |-> vfs_deleted(files, path)]
    /\ UNCHANGED snapshots
    /\ VfsFrame

Exists(path) ==
    /\ result' = [op |-> "exists", path |-> path, value |-> vfs_exists(files, path)]
    /\ UNCHANGED <<files, snapshots>>
    /\ VfsFrame

GetAllFiles ==
    /\ result' = [op |-> "get_all_files", value |-> vfs_get_all_files(files)]
    /\ UNCHANGED <<files, snapshots>>
    /\ VfsFrame

CreateSnapshot ==
    /\ Len(snapshots) < MaxSnapshots
    /\ snapshots' = create_snapshot(files, snapshots).snapshots
    /\ result' = [op |-> "create_snapshot",
                  value |-> create_snapshot(files, snapshots).index]
    /\ UNCHANGED files
    /\ VfsFrame

Rollback(snapshot_index) ==
    /\ IF rollback_rejects(snapshots, snapshot_index)
       THEN /\ files' = files
            /\ result' = [op |-> "rollback", index |-> snapshot_index, value |-> FALSE]
       ELSE /\ files' = rollback(files, snapshots[snapshot_index + 1])
            /\ result' = [op |-> "rollback", index |-> snapshot_index, value |-> TRUE]
    /\ UNCHANGED snapshots
    /\ VfsFrame

VfsNext ==
    \/ \E path \in VfsPaths, content \in VfsContents : Write(path, content)
    \/ \E path \in VfsPaths : Read(path)
    \/ \E path \in VfsPaths : Delete(path)
    \/ \E path \in VfsPaths : Exists(path)
    \/ GetAllFiles
    \/ CreateSnapshot
    \/ \E snapshot_index \in -1..MaxSnapshots : Rollback(snapshot_index)

VfsSpec == Init /\ [][VfsNext]_vars

\* ---- the File Store written by several threads, each calling write once.
\* The lock is held from "with self._lock" to the return; the steps under it
\* are the test "path in self._files" and the update or creation.
WriterPaths == {<<"a">>, <<"/", "a", "/">>, <<"b">>}

WriteFrame ==
    UNCHANGED <<builds, status, error, task_graph, events, loops, calls, ncalls,
                returned, resumed, listeners, received, snapshots>>

\* write is called: path = self._normalize_path(path)
WriteCall(t, path, content) ==
    /\ writers[t].pc = "idle"
    /\ writers' = [writers EXCEPT ![t] = [pc |-> "acquire", path |-> normalize_path(path),
                                          content |-> content]]
    /\ UNCHANGED <<files, lock, result>>
    /\ WriteFrame

\* with self._lock:
WriteAcquire(t) ==
    /\ writers[t].pc = "acquire"
    /\ lock_free(lock, t)
    /\ lock' = t
    /\ writers' = [writers EXCEPT ![t].pc = "locked"]
    /\ UNCHANGED <<files, result>>
    /\ WriteFrame

\* if path in self._files:
WriteTest(t) ==
    /\ writers[t].pc = "locked"
    /\ writers' = [writers EXCEPT ![t].pc =
                       IF writers[t].path \in DOMAIN files THEN "update" ELSE "create"]
    /\ UNCHANGED <<files, lock, result>>
    /\ WriteFrame

\* the update of the existing file, or the creation of a new one; the file
\* is returned and the lock released
WriteStore(t) ==
    /\ writers[t].pc \in {"update", "create"}
    /\ LET p == writers[t].path
           c == writers[t].content
       IN  /\ writers[t].pc = "update" => p \in DOMAIN files
           /\ files' = IF writers[t].pc = "update"
                       THEN [files EXCEPT ![p] = [content |-> c, version |-> @.version + 1]]
                       ELSE [q \in DOMAIN files \cup {p} |->
                                IF q = p THEN [content |-> c, version |-> 1] ELSE files[q]]
           /\ result' = [op |-> "write", path |-> p, content |-> c, value |-> files'[p]]
    /\ lock' = Unlocked
    /\ writers' = [writers EXCEPT ![t].pc = "done"]
    /\ WriteFrame

WriteNext ==
    \/ \E t \in Writers, path \in WriterPaths, content \in VfsContents :
           WriteCall(t, path, content)
    \/ \E t \in Writers : WriteAcquire(t)
    \/ \E t \in Writers : WriteTest(t)
    \/ \E t \in Writers : WriteStore(t)

WriteSpec == Init /\ [][WriteNext]_vars

\* ---- the Plan Builder alone: create_plan on any input
PlanSectionItems == {"hero", "about", "bogus", Unhashable}
PlanSections ==
    {NoSections} \cup {SomeSections(l) : l \in SeqsUpTo(PlanSectionItems, MaxSections)}

\* resume_data: None, or a dict of which these fields are non-empty or not
ResumeData ==
    {NoResume} \cup [skills : BOOLEAN, work_experience : BOOLEAN,
                     projects : BOOLEAN, education : BOOLEAN]

PlanStyles == {"modern", "minimal"}

\* create_plan returns the graph, or the membership test raises TypeError
CreatePlan(resume_data, user_prompt, style, sections) ==
    /\ IF create_plan_raises(sections)
       THEN /\ task_graph' = NoGraph
            /\ result' = [op |-> "create_plan", resume_data |-> resume_data,
                          style |-> style, sections |-> sections, raised |-> TRUE]
       ELSE /\ task_graph' = create_plan(BuildId, resume_data, user_prompt, style, sections)
            /\ result' = [op |-> "create_plan", resume_data |-> resume_data,
                          style |-> style, sections |-> sections, raised |-> FALSE]
    /\ UNCHANGED <<builds, status, error, files, events, loops, calls, ncalls,
                   returned, resumed, listeners, received>>
    /\ UNCHANGED store_vars

PlanNext ==
    \E resume_data \in ResumeData, style \in PlanStyles, sections \in PlanSections :
        CreatePlan(resume_data, None, style, sections)

PlanSpec == Init /\ [][PlanNext]_vars

\* =========================================================================
\* Properties
\* =========================================================================
HasGraph == task_graph /= NoGraph
TaskIx == 1..Len(Tasks)

\* the positions an id resolves to: the first task carrying it, if any
Resolves(tasks, d) ==
    {j \in 1..Len(tasks) : tasks[j].id = d /\ \A k \in 1..(j - 1) : tasks[k].id /= d}

\* the tasks that task u depends on
DepsOf(tasks, u) == UNION {Resolves(tasks, d) : d \in Range(tasks[u].depends_on)}

\* the tasks u depends on, directly or through other tasks
RECURSIVE AncestorsWithin(_, _, _)
AncestorsWithin(tasks, S, n) ==
    IF n = 0 THEN S
    ELSE AncestorsWithin(tasks, S \cup UNION {DepsOf(tasks, t) : t \in S}, n - 1)

Ancestors(tasks, u) == AncestorsWithin(tasks, DepsOf(tasks, u), Len(tasks))

Started(i) == Tasks'[i].status = RUNNING /\ Tasks[i].status /= RUNNING

Emitted(type) == \E k \in 1..Len(events) : events[k].type = type

\* ---- C2: get_ready_tasks returns a task iff it is pending and every id of
\* its dependency list resolves to a task of the graph that is completed; a
\* task with a pending, running, failed or missing dependency is not returned.
C2_IsReady(tasks, i) ==
    /\ tasks[i].status = PENDING
    /\ \A d \in Range(tasks[i].depends_on) :
           \E j \in Resolves(tasks, d) : tasks[j].status = COMPLETED

C2_GetReadyTasks ==
    result.op = "get_ready_tasks" =>
        \A i \in TaskIx : (i \in Range(result.value)) <=> C2_IsReady(Tasks, i)

C2_Witness ==
    /\ result.op = "get_ready_tasks"
    /\ \E i \in Range(result.value) : Tasks[i].depends_on /= <<>>
    /\ \E i \in TaskIx \ Range(result.value) : Tasks[i].status = COMPLETED

C1_StartOrder ==
    [][HasGraph =>
         \A i \in TaskIx :
            Started(i) =>
               /\ \A d \in Range(Tasks[i].depends_on) :
                      \E j \in Resolves(Tasks, d) : Tasks'[j].status = COMPLETED
               /\ \A j \in 1..(i - 1) : Tasks'[j].status /= PENDING
               /\ i > 1 => Tasks'[i - 1].status = COMPLETED]_vars

\* ---- C4: with the execution loop alone and every worker call returning,
\* a planned build reaches completed or failed, and from then on no task is
\* started.
Terminal == status \in {B_COMPLETED, B_FAILED}

C4_Terminates ==
    /\ HasGraph ~> Terminal
    /\ [][(HasGraph /\ Terminal) => \A i \in TaskIx : ~Started(i)]_vars

C4_Witness ==
    /\ HasGraph
    /\ status = B_COMPLETED
    /\ \A i \in TaskIx : Tasks[i].status = COMPLETED
    /\ Len(Tasks) > 3

\* ---- C5: with the execution loop alone, when a task that another task
\* depends on fails, its status is failed, its dependents stay pending, the
\* loop ends with the build failed as stuck and build_failed emitted, and no
\* task is started afterwards.
Dependents(tasks, t) == {u \in 1..Len(tasks) : t \in DepsOf(tasks, u)}

FailedWithDependents ==
    {t \in TaskIx : Tasks[t].status = FAILED /\ Dependents(Tasks, t) /= {}}

C5_StuckInv ==
    (HasGraph /\ FailedWithDependents /= {}) =>
        /\ \A t \in FailedWithDependents :
               \A u \in Dependents(Tasks, t) : Tasks[u].status = PENDING
        /\ (\A i \in TaskIx : Tasks[i].status /= RUNNING) =>
               /\ status = B_FAILED
               /\ error = StuckError
               /\ \A l \in 1..Len(loops) : loops[l].pc = "done"

C5_StuckStep ==
    HasGraph =>
        /\ \A i \in TaskIx :
               (Tasks[i].status = RUNNING /\ Tasks'[i].status /= RUNNING
                    /\ Tasks'[i].status /= COMPLETED) =>
                  /\ Tasks'[i].status = FAILED
                  /\ Tasks'[i].error /= None
                  /\ \E k \in 1..Len(events') :
                         events'[k] = Event("task_failed",
                                            [task_id |-> Tasks[i].id,
                                             error |-> Tasks'[i].error])
        /\ (status /= B_FAILED /\ status' = B_FAILED) =>
               events'[Len(events')] = Event("build_failed", [error |-> StuckError])
        /\ status = B_FAILED => UNCHANGED task_graph

C5_FailedDependency == []C5_StuckInv /\ [][C5_StuckStep]_vars

C5_Witness ==
    /\ HasGraph
    /\ status = B_FAILED
    /\ error = StuckError
    /\ Emitted("build_failed")
    /\ \E t \in FailedWithDependents :
           \E u \in Dependents(Tasks, t) : Tasks[u].status = PENDING

\* ---- C6: with the execution loop alone, the build is completed and
\* build_completed is emitted only when no task is failed; when the loop has
\* ended with a failed task the build is failed and build_failed was emitted.
AnyFailed == \E i \in TaskIx : Tasks[i].status = FAILED

C6_CompletedOnlyClean ==
    HasGraph =>
        /\ status = B_COMPLETED => ~AnyFailed
        /\ Emitted("build_completed") => ~AnyFailed
        /\ ((\E l \in 1..Len(loops) : loops[l].pc = "done") /\ AnyFailed) =>
               /\ status = B_FAILED
               /\ Emitted("build_failed")

\* ---- C7: the build is set to failed with the stuck error only when every
\* pending task has a failed task among the tasks it depends on, directly or
\* through other tasks, also while RetryTask or RegenerateSection is
\* executing a task.
C7_StuckOnlyBehindFailure ==
    [][(HasGraph /\ status /= B_FAILED /\ status' = B_FAILED /\ error' = StuckError) =>
         \A u \in TaskIx :
            Tasks'[u].status = PENDING =>
               \E t \in Ancestors(Tasks', u) : Tasks'[t].status = FAILED]_vars

\* ---- C8: while a task is failed, no task that depends on it is started,
\* whatever the execution loop, RetryTask and RegenerateSection do.
C8_NoStartBehindFailure ==
    [][HasGraph =>
         \A u \in TaskIx :
            (Tasks'[u].status = RUNNING /\ Tasks[u].status /= RUNNING) =>
               \A t \in DepsOf(Tasks, u) :
                  ~(Tasks[t].status = FAILED /\ Tasks'[t].status = FAILED)]_vars

\* ---- C9: RetryTask returns false and changes nothing (no task, no build
\* field, no file, no event, no coroutine) when the build is unknown, the
\* task is unknown or the task is not failed.
CallTaskIdsAll == {"ghost", "init", "style", "hero", "finalize"}

\* this step is a retry_task invocation with these arguments
RetryInvoked(b, t) ==
    /\ ncalls' = ncalls + 1
    /\ \/ (returned' /= NoRet /\ returned' = Ret("retry", b, t, returned'.value))
       \/ /\ Len(calls') = Len(calls) + 1
          /\ calls'[Len(calls')].op = "retry"
          /\ calls'[Len(calls')].build_id = b
          /\ calls'[Len(calls')].task_id = t

C9_MustReject(b, t) ==
    \/ b \notin builds
    \/ ~HasGraph
    \/ Resolves(Tasks, t) = {}
    \/ \E j \in Resolves(Tasks, t) : Tasks[j].status /= FAILED

C9_RetryRejects ==
    [][\A b \in BuildIds, t \in CallTaskIdsAll :
          (RetryInvoked(b, t) /\ C9_MustReject(b, t)) =>
             /\ returned' = Ret("retry", b, t, FALSE)
             /\ events' = <<>>
             /\ UNCHANGED <<builds, status, error, task_graph, files, loops, calls,
                            resumed>>]_vars

C9_Witness ==
    /\ HasGraph
    /\ returned = Ret("retry", BuildId, "init", FALSE)
    /\ Tasks[1].status = COMPLETED
    /\ \E i \in TaskIx : Tasks[i].status = RUNNING

\* ---- C10: RetryTask on the failed task of a build that failed as stuck
\* re-runs it; when that succeeds the build is building again, and if every
\* later worker call succeeds the build ends completed with every task
\* completed.
Quiescent == calls = <<>> /\ \A l \in 1..Len(loops) : loops[l].pc = "done"

C10_ResumeInv ==
    (HasGraph /\ resumed) =>
        /\ status /= B_FAILED
        /\ Quiescent => (status = B_COMPLETED /\ \A i \in TaskIx : Tasks[i].status = COMPLETED)

C10_ResumeStep ==
    (HasGraph /\ ~resumed /\ resumed') =>
        /\ status = B_FAILED
        /\ status' = B_BUILDING
        /\ loops' = Append(loops, LoopCreated)

C10_RetryResumes == []C10_ResumeInv /\ [][C10_ResumeStep]_vars

\* ---- C11: RegenerateSection on an existing task removes every path of the
\* task's recorded output list from the File Store before the worker is
\* called; when the re-execution fails the File Store is left as it was (the
\* files stay absent), the task is failed and its output list is empty.
RegenerateAccepted(i) ==
    /\ Len(calls') = Len(calls) + 1
    /\ calls'[Len(calls')].op = "regenerate"
    /\ calls'[Len(calls')].task = i

RegenerateFailed(c) ==
    /\ calls[c].op = "regenerate"
    /\ calls' = RemoveAt(calls, c)
    /\ returned' = Ret("regenerate", calls[c].build_id, calls[c].task_id, TRUE)
    /\ Tasks'[calls[c].task].status = FAILED

C11_DeleteStep ==
    HasGraph =>
        \A i \in TaskIx :
            RegenerateAccepted(i) =>
                /\ \A k \in 1..Len(Tasks[i].output_files) :
                       normalize_path(Tasks[i].output_files[k]) \notin DOMAIN files'
                /\ Tasks'[i].output_files = <<>>
                /\ Tasks'[i].status = RUNNING

C11_FailStep ==
    HasGraph =>
        \A c \in 1..Len(calls) :
            RegenerateFailed(c) =>
                /\ files' = files
                /\ Tasks'[calls[c].task].output_files = <<>>

C11_RegenerateDeletes == [][C11_DeleteStep /\ C11_FailStep]_vars

\* ---- C12: RegenerateSection on a task that has never completed (it is
\* still pending, so it has never been executed) deletes no file.
C12_DeletesOwnFilesOnly ==
    [][HasGraph =>
         \A i \in TaskIx :
            (RegenerateAccepted(i) /\ Tasks[i].status = PENDING) =>
                DOMAIN files' = DOMAIN files]_vars

\* ---- C16: StartBuild returns without waiting for task execution: when it
\* returns after successful planning the build is registered, every task is
\* pending, no task event has been emitted, the build is in no terminal
\* status and its execution loop is created but has not run.
StartBuildReturns == builds = {} /\ builds' /= {}

TaskEventTypes == {"task_started", "file_written", "task_completed", "task_failed"}

C16_ReturnsBeforeExecution ==
    [][(StartBuildReturns /\ task_graph' /= NoGraph) =>
          /\ BuildId \in builds'
          /\ \A i \in 1..Len(Tasks') : Tasks'[i].status = PENDING
          /\ \A k \in 1..Len(events') : events'[k].type \notin TaskEventTypes
          /\ status' \notin {B_COMPLETED, B_FAILED, B_CANCELLED}
          /\ loops' = <<LoopCreated>>]_vars

\* StartBuild has returned and the tasks run afterwards
C16_Witness ==
    /\ HasGraph
    /\ BuildId \in builds
    /\ \E l \in 1..Len(loops) : loops[l].pc = "worker"
    /\ Tasks[1].status = RUNNING
    /\ Emitted("task_started")

\* ---- C17: when StartBuild returns after successful planning the build's
\* status is building and build_phase_started has been emitted.
C17_BuildingAtReturn ==
    [][(StartBuildReturns /\ task_graph' /= NoGraph) =>
          /\ status' = B_BUILDING
          /\ \E k \in 1..Len(events') : events'[k].type = "build_phase_started"]_vars

\* ---- C18: when the Plan Builder raises during StartBuild the build is
\* failed with the error recorded, build_failed is emitted, no task graph is
\* attached, no execution loop is started, no task is run, and later
\* RetryTask / RegenerateSection calls on the build return false.
PlanningFailed == BuildId \in builds /\ ~HasGraph

C18_FailedInv ==
    PlanningFailed =>
        /\ status = B_FAILED
        /\ error /= None
        /\ loops = <<>>
        /\ calls = <<>>
        /\ files = EmptyFiles
        /\ \A k \in 1..Len(events) : events[k].type \notin TaskEventTypes

C18_FailedStep ==
    /\ (StartBuildReturns /\ task_graph' = NoGraph) =>
          /\ Len(events') > 0
          /\ events'[Len(events')] = Event("build_failed", [error |-> error'])
    /\ (PlanningFailed /\ ncalls' = ncalls + 1) =>
          /\ returned' /= NoRet
          /\ returned'.value = FALSE
          /\ events' = <<>>
          /\ UNCHANGED <<builds, status, error, task_graph, files, loops, calls>>

C18_PlanningFailure == []C18_FailedInv /\ [][C18_FailedStep]_vars

C18_Witness ==
    /\ PlanningFailed
    /\ returned = Ret("regenerate", BuildId, "init", FALSE)
    /\ ncalls = 2

\* ---- C19: a build whose planning succeeds emits build_started,
\* planning_started, planning_completed in that order, then
\* build_phase_started when its execution loop starts; every event of a run
\* of the loop comes after the run's build_phase_started, and a run that ends
\* emits exactly one terminal event (build_completed or build_failed), as its
\* last event.
EventTypes(es) == [k \in 1..Len(es) |-> es[k].type]

TerminalEventTypes == {"build_completed", "build_failed"}

RunStarts(l) == loops[l].pc = "created" /\ loops'[l].pc /= "created"
RunEnds(l) == loops[l].pc /= "done" /\ loops'[l].pc = "done"
RunSteps(l) == loops'[l] /= loops[l]

C19_EventOrderStep ==
    /\ (StartBuildReturns /\ task_graph' /= NoGraph) =>
          EventTypes(events') = <<"build_started", "planning_started", "planning_completed">>
    /\ \A k \in 1..Len(events') :
          events'[k].type = "build_phase_started" =>
              k = 1 /\ \E l \in 1..Len(loops) : RunStarts(l)
    /\ \A l \in 1..Len(loops) :
          /\ RunStarts(l) => (events' /= <<>> /\ events'[1].type = "build_phase_started")
          /\ (RunSteps(l) /\ ~RunEnds(l)) =>
                \A k \in 1..Len(events') : events'[k].type \notin TerminalEventTypes
          /\ RunEnds(l) =>
                /\ events' /= <<>>
                /\ events'[Len(events')].type \in TerminalEventTypes
                /\ \A k \in 1..(Len(events') - 1) :
                       events'[k].type \notin TerminalEventTypes
          /\ loops[l].pc = "done" => loops'[l] = loops[l]
    /\ (\E k \in 1..Len(events') : events'[k].type \in TerminalEventTypes) =>
          \/ \E l \in 1..Len(loops) : RunEnds(l)
          \/ (StartBuildReturns /\ task_graph' = NoGraph)

C19_EventOrder ==
    /\ [](loops /= <<>> => HasGraph)
    /\ [][C19_EventOrderStep]_vars

C19_Witness ==
    /\ HasGraph
    /\ Len(loops) = 2
    /\ loops[2].pc = "done"
    /\ events /= <<>>
    /\ events[Len(events)].type = "build_completed"
    /\ \E k \in 1..Len(events) : events[k].type = "task_completed"

\* ---- C13: when a callback raises during _emit every other registered
\* callback is still called with the event, the exception does not reach the
\* emitting coroutine, and the build and its tasks evolve exactly as with no
\* subscriber at all.
CallbackOf(c) == CHOOSE cb \in Callbacks : cb.id = c

\* the callbacks _emit calls: all of them, or those up to the first that
\* never completes
FirstHang ==
    IF \E k \in 1..Len(listeners) : listeners[k].kind = "hang"
    THEN CHOOSE k \in 1..Len(listeners) :
             /\ listeners[k].kind = "hang"
             /\ \A j \in 1..(k - 1) : listeners[j].kind /= "hang"
    ELSE Len(listeners)

TimesCalled(c) == Cardinality({k \in 1..FirstHang : listeners[k].id = c})

RECURSIVE Repeat(_, _)
Repeat(e, n) == IF n = 0 THEN <<>> ELSE <<e>> \o Repeat(e, n - 1)

RECURSIVE EachRepeated(_, _)
EachRepeated(es, n) ==
    IF es = <<>> THEN <<>> ELSE Repeat(Head(es), n) \o EachRepeated(Tail(es), n)

NoHang == \A k \in 1..Len(listeners) : listeners[k].kind /= "hang"
SomeRaise == \E k \in 1..Len(listeners) : listeners[k].kind = "raise"

\* the build as the stepping coroutine sees it, were nobody subscribed
Unobserved == [World EXCEPT !.listeners = <<>>]

AsUnobserved(n, l) ==
    /\ status' = n.w.status
    /\ error' = n.w.error
    /\ Tasks' = n.w.tasks
    /\ files' = n.w.files
    /\ events' = n.w.events
    /\ loops'[l] = n.loop

C13_EmitStep ==
    (HasGraph /\ listeners' = listeners /\ events' /= <<>>) =>
        /\ \A c \in CallbackIds :
               received'[c] = received[c] \o EachRepeated(events', TimesCalled(c))
        /\ (NoHang /\ SomeRaise) =>
               \A l \in 1..Len(loops) :
                   /\ RunStarts(l) =>
                          AsUnobserved(loop_top(execute_build_begin(Unobserved)), l)
                   /\ (loops[l].pc = "worker" /\ RunSteps(l)) =>
                          \E r \in WorkerResults :
                              AsUnobserved(loop_next(exec_finish(Unobserved,
                                               loops[l].ready[loops[l].k], r), loops[l]), l)

C13_RaisingSubscriber == [][C13_EmitStep]_vars

Received(c, type) == \E k \in 1..Len(received[c]) : received[c][k].type = type

C13_Witness ==
    /\ listeners = <<CallbackOf("s2"), CallbackOf("s1")>>
    /\ Received("s2", "task_started")
    /\ Received("s1", "task_started")
    /\ Received("s1", "build_completed")
    /\ status = B_COMPLETED

\* ---- C14: subscription never gates execution: whatever callbacks are
\* subscribed and unsubscribed and whatever they do when called, a build
\* whose worker calls all return reaches a terminal status.
C14_SubscriptionNeverGates == HasGraph ~> (status \in {B_COMPLETED, B_FAILED})

\* ---- C15: every callback is called with task_started before any
\* file_written of the same execution of the task and before its
\* task_completed or task_failed; only a callback registered while the task
\* was already running sees the end of an execution without its start.
TaskEndTypes == {"task_completed", "task_failed"}

\* the entry that records the latest registration before entry j
LastSubscribed(log, j) ==
    CHOOSE m \in 1..(j - 1) :
        /\ log[m].type = "subscribed"
        /\ \A k \in (m + 1)..(j - 1) : log[k].type /= "subscribed"

StartedSince(log, m, j, t) ==
    \E k \in (m + 1)..(j - 1) : log[k].type = "task_started" /\ log[k].data.task_id = t

\* a task whose start the callback has seen since m and whose end it has not
OpenSince(log, m, j) ==
    \E k \in (m + 1)..(j - 1) :
        /\ log[k].type = "task_started"
        /\ \A e \in (k + 1)..(j - 1) :
               ~(log[e].type \in TaskEndTypes /\ log[e].data.task_id = log[k].data.task_id)

C15_StartedFirst ==
    \A c \in CallbackIds :
        \A j \in 1..Len(received[c]) :
            LET log == received[c]
            IN  /\ log[j].type /= "subscribed" =>
                       \E m \in 1..(j - 1) : log[m].type = "subscribed"
                /\ log[j].type \in TaskEndTypes =>
                       \/ StartedSince(log, LastSubscribed(log, j), j, log[j].data.task_id)
                       \/ log[j].data.task_id \in log[LastSubscribed(log, j)].data.running
                /\ log[j].type = "file_written" =>
                       \/ OpenSince(log, LastSubscribed(log, j), j)
                       \/ log[LastSubscribed(log, j)].data.running /= {}

C15_Witness ==
    /\ Len(received["s1"]) >= 5
    /\ received["s1"][1].type = "subscribed"
    /\ \E j \in 2..(Len(received["s1"]) - 3) :
           /\ received["s1"][j] = Event("task_started", [task_id |-> "style"])
           /\ received["s1"][j + 1].type = "file_written"
           /\ received["s1"][j + 3] = Event("task_completed", [task_id |-> "style"])
    /\ \A j \in 2..Len(received["s1"]) : received["s1"][j].type /= "subscribed"

\* ---- C20: when the worker returns success with outputs o1..on, each
\* output is written to the File Store and announced by one file_written
\* event with its path and content, in result order; the task is then
\* completed with the result's paths as its output list, and task_completed
\* is emitted after all file_written events.
CompletedNow(i) == Tasks[i].status = RUNNING /\ Tasks'[i].status = COMPLETED

WritesTo(paths, p) == {k \in 1..Len(paths) : normalize_path(paths[k]) = p}

C20_OutputsStep ==
    HasGraph =>
        /\ \A i \in TaskIx :
              CompletedNow(i) =>
                LET paths == Tasks'[i].output_files
                    n == Len(paths)
                IN  /\ Len(events') > n
                    /\ \A k \in 1..n :
                          /\ events'[k].type = "file_written"
                          /\ events'[k].data.path = paths[k]
                          /\ normalize_path(paths[k]) \in DOMAIN files'
                          /\ (\A k2 \in (k + 1)..n :
                                  normalize_path(paths[k2]) /= normalize_path(paths[k])) =>
                                 files'[normalize_path(paths[k])].content
                                     = events'[k].data.content
                    /\ events'[n + 1] = Event("task_completed", [task_id |-> Tasks[i].id])
                    /\ DOMAIN files \subseteq DOMAIN files'
                    /\ \A p \in DOMAIN files' :
                          IF WritesTo(paths, p) = {}
                          THEN p \in DOMAIN files /\ files'[p] = files[p]
                          ELSE files'[p].version =
                                   (IF p \in DOMAIN files THEN files[p].version ELSE 0)
                                   + Cardinality(WritesTo(paths, p))
        /\ (\E k \in 1..Len(events') : events'[k].type = "file_written") =>
              \E i \in TaskIx : CompletedNow(i)
        /\ (\A i \in TaskIx : ~CompletedNow(i)) => files' = files

C20_SuccessWritesOutputs == [][C20_OutputsStep]_vars

\* a result with the same file twice under two spellings has been written
C20_Witness ==
    /\ HasGraph
    /\ Tasks[1].status = COMPLETED
    /\ Tasks[1].output_files = <<<<"a">>, <<"/", "a", "/">>>>
    /\ File2("a") \in DOMAIN files
    /\ files[File2("a")] = [content |-> "y", version |-> 2]
    /\ Emitted("task_completed")

\* ---- C21: when the worker returns success=false or the worker call
\* throws, the task becomes failed with the error recorded, exactly one
\* task_failed event with the task's id and the error is emitted, no
\* task_completed (and no file_written) is emitted for the attempt, and the
\* File Store is left as it was.
EventsOf(evs, type) == {k \in 1..Len(evs) : evs[k].type = type}

FailedNow(i) ==
    /\ Tasks'[i].status = FAILED
    /\ Tasks[i].status /= FAILED \/ Tasks'[i].error /= Tasks[i].error

C21_FailStep ==
    HasGraph =>
        /\ \A i \in TaskIx :
              FailedNow(i) =>
                  /\ Tasks'[i].error /= None
                  /\ \E k \in EventsOf(events', "task_failed") :
                         events'[k].data = [task_id |-> Tasks[i].id,
                                            error |-> Tasks'[i].error]
        /\ EventsOf(events', "task_failed") /= {} =>
              /\ Cardinality(EventsOf(events', "task_failed")) = 1
              /\ \A k \in EventsOf(events', "task_failed") :
                     \E i \in TaskIx :
                         /\ Tasks'[i].id = events'[k].data.task_id
                         /\ Tasks'[i].status = FAILED
                         /\ Tasks'[i].error = events'[k].data.error
              /\ EventsOf(events', "task_completed") = {}
              /\ EventsOf(events', "file_written") = {}
              /\ files' = files

C21_WorkerFailure == [][C21_FailStep]_vars

\* the attempt made by a retry of init has ended on success=false
C21_Witness ==
    /\ HasGraph
    /\ Tasks[1].status = FAILED
    /\ Tasks[1].error = "worker error"
    /\ events = <<Event("task_failed", [task_id |-> "init", error |-> "worker error"])>>
    /\ returned = Ret("retry", BuildId, "init", TRUE)
    /\ files = EmptyFiles

\* ---- C22: the build's status changes only along pending->planning,
\* planning->building, planning->failed, building->completed,
\* building->failed and failed->building (by RetryTask alone); completed is
\* never left, under any sequence of StartBuild, RetryTask and
\* RegenerateSection calls.
BuildMoves ==
    {<<B_PENDING, B_PLANNING>>, <<B_PLANNING, B_BUILDING>>, <<B_PLANNING, B_FAILED>>,
     <<B_BUILDING, B_COMPLETED>>, <<B_BUILDING, B_FAILED>>, <<B_FAILED, B_BUILDING>>}

\* the statuses the build has in the course of one step: the one before, the
\* ones the step announces (planning_started, build_phase_started) and the
\* one after
StatusPath ==
    <<status>>
    \o (IF EventsOf(events', "planning_started") /= {} THEN <<B_PLANNING>> ELSE <<>>)
    \o (IF EventsOf(events', "build_phase_started") /= {} THEN <<B_BUILDING>> ELSE <<>>)
    \o <<status'>>

C22_StatusStep ==
    /\ \A k \in 1..(Len(StatusPath) - 1) :
           StatusPath[k] /= StatusPath[k + 1] =>
               <<StatusPath[k], StatusPath[k + 1]>> \in BuildMoves
    /\ status = B_FAILED /\ status' /= B_FAILED =>
           returned' /= NoRet /\ returned'.op = "retry" /\ returned'.value = TRUE
    /\ status = B_COMPLETED => status' = B_COMPLETED

C22_BuildStatusMoves == [][C22_StatusStep]_vars

\* a failed build has been resumed by RetryTask and has then completed, and
\* a later RegenerateSection has run on the completed build
C22_Witness ==
    /\ status = B_COMPLETED
    /\ Len(loops) = 2
    /\ returned = Ret("regenerate", BuildId, "init", TRUE)
    /\ events = <<Event("task_failed", [task_id |-> "init", error |-> "exception"])>>

\* ---- C23: every task status change is pending->running,
\* running->completed, running->failed, or a reset to pending made by
\* RetryTask / RegenerateSection (which then start the task again in the
\* same step); no task moves between completed and failed, or from
\* completed/failed to running, without that reset.
TaskMoves == {<<PENDING, RUNNING>>, <<RUNNING, COMPLETED>>, <<RUNNING, FAILED>>}

\* the step is a RetryTask / RegenerateSection call that was accepted for
\* task i: it reset the task and has started its new attempt
ResetBy(i) ==
    /\ Len(calls') = Len(calls) + 1
    /\ calls'[Len(calls')].op \in {"retry", "regenerate"}
    /\ calls'[Len(calls')].task = i

C23_TaskStep ==
    HasGraph =>
        \A i \in TaskIx :
            Tasks'[i].status /= Tasks[i].status =>
                \/ <<Tasks[i].status, Tasks'[i].status>> \in TaskMoves
                \/ ResetBy(i) /\ Tasks'[i].status = RUNNING

C23_TaskStatusMoves == [][C23_TaskStep]_vars

\* ---- C24: at most one execution attempt of a given task is in flight
\* (between its task_started and its task_completed / task_failed) at any
\* time, under any interleaving of the loop, RetryTask and RegenerateSection.
\* the attempts of task i that are waiting for the worker's answer
InFlight(i) ==
    Cardinality({l \in 1..Len(loops) :
                     loops[l].pc = "worker" /\ loops[l].ready[loops[l].k] = i})
    + Cardinality({c \in 1..Len(calls) :
                       calls[c].op \in {"retry", "regenerate"} /\ calls[c].task = i})

C24_OneAttemptInFlight == HasGraph => \A i \in TaskIx : InFlight(i) <= 1

\* ---- C25: after Write(p, c), Read(p) = c and Exists(p); after a further
\* Write(p, c2), Read(p) = c2, the version is one higher and the store has
\* still one entry for p; Delete(p) then returns true and leaves Read(p)
\* absent and Exists(p) false, and a second Delete(p) returns false.
\* (result is the call before the step, result' the call the step makes.)
SamePath == result.op \in {"write", "delete"} /\ result'.path = result.path

C25_RoundTripStep ==
    /\ result'.op = "write" =>
          /\ vfs_read(files', result'.path) = result'.content
          /\ vfs_exists(files', result'.path)
          /\ vfs_exists(files, result'.path) =>
                /\ result'.value.version = files[normalize_path(result'.path)].version + 1
                /\ Cardinality(DOMAIN files') = Cardinality(DOMAIN files)
    /\ result'.op = "delete" =>
          /\ vfs_read(files', result'.path) = None
          /\ ~vfs_exists(files', result'.path)
          /\ result'.value = vfs_exists(files, result'.path)
    /\ result'.op = "read" /\ SamePath =>
          result'.value = (IF result.op = "write" THEN result.content ELSE None)
    /\ result'.op = "exists" /\ SamePath => result'.value = (result.op = "write")
    /\ result'.op = "write" /\ SamePath /\ result.op = "write" =>
          result'.value = [content |-> result'.content,
                           version |-> result.value.version + 1]
    /\ result'.op = "delete" /\ SamePath => result'.value = (result.op = "write")

C25_WriteReadDelete == [][C25_RoundTripStep]_vars

\* a file that was written with "1" and then with "2" (the two snapshots
\* show it) has been deleted, and a further Delete has returned false
C25_Witness ==
    /\ result = [op |-> "delete", path |-> <<"a">>, value |-> FALSE]
    /\ File2("a") \notin DOMAIN files
    /\ snapshots = <<File2("a") :> "1", File2("a") :> "2">>

\* ---- C26: after Rollback(idx) with idx returned by an earlier Snapshot,
\* Rollback has returned true and GetAllFiles() is exactly the path ->
\* content map of the moment the snapshot was taken (files created later are
\* gone, files deleted or overwritten later are restored); the same idx can
\* be rolled back to again with the same result.
\* (A snapshot holds the map of the moment it was taken, with the index that
\* Snapshot returned, and no later call changes it.)
C26_SnapshotStep ==
    /\ result'.op = "create_snapshot" =>
          /\ result'.value = Len(snapshots)
          /\ Len(snapshots') = Len(snapshots) + 1
          /\ snapshots'[result'.value + 1] = vfs_get_all_files(files)
          /\ files' = files
    /\ \A k \in 1..Len(snapshots) : Len(snapshots') >= k /\ snapshots'[k] = snapshots[k]
    /\ result'.op = "rollback" /\ result'.index \in 0..(Len(snapshots) - 1) =>
          /\ result'.value = TRUE
          /\ vfs_get_all_files(files') = snapshots[result'.index + 1]
    /\ result'.op = "get_all_files" /\ result.op = "rollback" /\ result.value =>
          result'.value = snapshots[result.index + 1]

C26_RollbackRestores == [][C26_SnapshotStep]_vars

\* the first snapshot held file a with "1"; the file was overwritten, another
\* was created and a second snapshot taken; then Rollback(0) has removed the
\* new file and restored the old content
C26_Witness ==
    /\ result = [op |-> "rollback", index |-> 0, value |-> TRUE]
    /\ snapshots = <<File2("a") :> "1",
                     (File2("a") :> "2") @@ (<<"/", "a", "/">> :> "2")>>
    /\ files = (File2("a") :> [content |-> "1", version |-> 1])

\* ---- C27: the key under which the File Store stores or looks up a file
\* is normalized for every input path: it starts with "/", contains no
\* backslash and has no trailing "/" unless it is exactly "/"; normalizing a
\* normalized path returns it unchanged.
Normalized(key) ==
    /\ Len(key) > 0
    /\ key[1] = SLASH
    /\ \A i \in 1..Len(key) : key[i] /= BACKSLASH
    /\ key[Len(key)] = SLASH => key = <<SLASH>>

C27_KeysNormalized ==
    /\ \A key \in DOMAIN files : Normalized(key) /\ normalize_path(key) = key
    /\ "path" \in DOMAIN result =>
          /\ Normalized(normalize_path(result.path))
          /\ normalize_path(normalize_path(result.path)) = normalize_path(result.path)

\* ---- C28: concurrent Write calls to one path are serialized: after n
\* writes to a path that did not exist before, the store has one entry for
\* it, with version n (no increment is lost) and the content of the write
\* serialized last; files at other paths are unaffected.
\* the writes to key that have returned
WritesDone(key) == {t \in Writers : writers[t].pc = "done" /\ writers[t].path = key}

UnderLock == {t \in Writers : writers[t].pc \in {"locked", "update", "create"}}

C28_SerializedInv ==
    /\ Cardinality(UnderLock) <= 1
    /\ \A key \in DOMAIN files : files[key].version = Cardinality(WritesDone(key))
    /\ \A t \in Writers : writers[t].pc = "done" => writers[t].path \in DOMAIN files
    /\ result.op = "write" => files[result.path].content = result.content

C28_SerializedStep ==
    IF result' /= result
    THEN /\ result'.op = "write"
         /\ \A key \in DOMAIN files \ {result'.path} :
                key \in DOMAIN files' /\ files'[key] = files[key]
         /\ DOMAIN files' = DOMAIN files \cup {result'.path}
    ELSE files' = files

C28_WritesSerialized == []C28_SerializedInv /\ [][C28_SerializedStep]_vars

\* every thread has written to the file /a, the one writing "1" last
C28_Witness ==
    /\ \A t \in Writers : writers[t].pc = "done" /\ writers[t].path = File2("a")
    /\ writers[1].content = "1"
    /\ writers[2].content = "2"
    /\ files = (File2("a") :> [content |-> "1", version |-> MaxWriters])
    /\ result.content = "1"

\* ---- C29: for every input to CreatePlan (unknown and repeated section
\* kinds included) every dependency id of every task resolves to a task of
\* the graph, and the dependency relation over task ids is acyclic: no task
\* id reaches itself by following dependencies.
\* the ids that the tasks with id x depend on
IdDepsOf(tasks, x) ==
    UNION {Range(tasks[j].depends_on) : j \in {k \in 1..Len(tasks) : tasks[k].id = x}}

RECURSIVE IdsReachedWithin(_, _, _)
IdsReachedWithin(tasks, S, n) ==
    IF n = 0 THEN S
    ELSE IdsReachedWithin(tasks, S \cup UNION {IdDepsOf(tasks, y) : y \in S}, n - 1)

IdsReached(tasks, x) == IdsReachedWithin(tasks, IdDepsOf(tasks, x), Len(tasks))

C29_PlanAcyclic ==
    HasGraph =>
        /\ \A i \in TaskIx : \A d \in Range(Tasks[i].depends_on) : Resolves(Tasks, d) /= {}
        /\ \A i \in TaskIx : Tasks[i].id \notin IdsReached(Tasks, Tasks[i].id)

\* ---- C30: in every graph CreatePlan returns the tasks are initialization,
\* styling, the section tasks and finalization, in that order;
\* initialization has no dependency and every other task has exactly one,
\* the id of the task just before it in the list (finalization depends on
\* styling when there is no section task).
C30_LinearChain ==
    HasGraph =>
        LET n == Len(Tasks)
        IN  /\ n >= 3
            /\ Tasks[1].id = "init" /\ Tasks[1].type = "setup"
            /\ Tasks[1].depends_on = <<>>
            /\ Tasks[2].id = "style" /\ Tasks[2].type = "style"
            /\ \A i \in 3..(n - 1) : Tasks[i].type = "section" /\ Tasks[i].id \in SectionKinds
            /\ Tasks[n].id = "finalize" /\ Tasks[n].type = "finalize"
            /\ \A i \in 2..n : Tasks[i].depends_on = <<Tasks[i - 1].id>>
            /\ result.op = "create_plan" /\ result.sections /= NoSections
               /\ result.sections.list /= <<>> =>
                  [i \in 1..(n - 3) |-> Tasks[i + 2].id]
                      = SelectSeq(result.sections.list, LAMBDA s : s \in SectionKinds)

\* the plan for an explicit list of two known kinds
C30_Witness ==
    /\ HasGraph
    /\ result.op = "create_plan"
    /\ result.sections = SomeSections(<<"about", "hero">>)
    /\ [i \in 1..Len(Tasks) |-> Tasks[i].id] = <<"init", "style", "about", "hero", "finalize">>
    /\ Tasks[4].depends_on = <<"about">>

\* ---- C31: CreatePlan with no explicit section list and a content source
\* holding only skills and experience data.
SkillsExperience ==
    [skills |-> TRUE, work_experience |-> TRUE, projects |-> FALSE, education |-> FALSE]

PlannedFor(resume_data, sections) ==
    /\ HasGraph
    /\ result.op = "create_plan"
    /\ result.resume_data = resume_data
    /\ result.sections = sections

\* the ids of the section tasks, in list order
SectionIds(tasks) ==
    LET s == SelectSeq(tasks, LAMBDA t : t.type = "section")
    IN  [i \in 1..Len(s) |-> s[i].id]

\* the tasks are init, style, the sections with these ids and finalize, each
\* but init depending on the one before it
ChainOf(tasks, ids) ==
    /\ [i \in 1..Len(tasks) |-> tasks[i].id] = <<"init", "style">> \o ids \o <<"finalize">>
    /\ SectionIds(tasks) = ids
    /\ tasks[1].depends_on = <<>>
    /\ \A i \in 2..Len(tasks) : tasks[i].depends_on = <<tasks[i - 1].id>>

\* C31 as stated: the section tasks are exactly skills, experience, contact
\* in that order, each depending on its predecessor, after initialization
\* and styling and before finalization.
C31_SkillsExperienceOnly ==
    PlannedFor(SkillsExperience, NoSections) =>
        ChainOf(Tasks, <<"skills", "experience", "contact">>)

\* C31 amended: the section tasks are exactly hero, about, skills,
\* experience, contact in that order (hero and about are always inferred),
\* each depending on its predecessor, after initialization and styling and
\* before finalization.
C31_InferredSections ==
    PlannedFor(SkillsExperience, NoSections) =>
        ChainOf(Tasks, <<"hero", "about", "skills", "experience", "contact">>)

C31_Witness ==
    /\ PlannedFor(SkillsExperience, NoSections)
    /\ Len(Tasks) = 8
    /\ Tasks[5].id = "skills"
    /\ Tasks[6].depends_on = <<"skills">>

\* ---- C32: CreatePlan with a non-empty explicit section list (of section
\* kind names) returns a graph whose section tasks are exactly the list's
\* known kinds in list order, unknown kinds being dropped without error;
\* when no listed kind is known the graph is exactly initialization,
\* styling, finalization, with finalization depending on styling.
ExplicitKinds ==
    /\ result.op = "create_plan"
    /\ result.sections /= NoSections
    /\ result.sections.list /= <<>>
    /\ ~InSeq(Unhashable, result.sections.list)

C32_ExplicitSections ==
    ExplicitKinds =>
        /\ ~result.raised
        /\ HasGraph
        /\ ChainOf(Tasks, SelectSeq(result.sections.list, LAMBDA s : s \in SectionKinds))
        /\ (\A k \in 1..Len(result.sections.list) :
                result.sections.list[k] \notin SectionKinds) =>
               /\ Len(Tasks) = 3
               /\ Tasks[3].id = "finalize"
               /\ Tasks[3].depends_on = <<"style">>

\* the plan for a list with an unknown kind before a known one
C32_Witness ==
    /\ ExplicitKinds
    /\ result.sections.list = <<"bogus", "about">>
    /\ [i \in 1..Len(Tasks) |-> Tasks[i].id] = <<"init", "style", "about", "finalize">>

\* ---- C33: in every graph CreatePlan returns that has a section task, the
\* last section task (the one finalization depends on) is the contact
\* section, and contact appears exactly once.
C33_ContactLast ==
    HasGraph /\ SectionIds(Tasks) /= <<>> =>
        LET ids == SectionIds(Tasks)
        IN  /\ ids[Len(ids)] = "contact"
            /\ Tasks[Len(Tasks)].depends_on = <<"contact">>
            /\ Cardinality({k \in 1..Len(ids) : ids[k] = "contact"}) = 1

\* ---- C34: no transition to a failed status destroys inspection state:
\* when a task or the build becomes failed, no file is removed from the File
\* Store and no task from the graph; the task ids of a build's graph are the
\* same from planning on, under any sequence of operations.
TaskIdsOf(tasks) == [i \in 1..Len(tasks) |-> tasks[i].id]

BecomesFailed ==
    \/ status' = B_FAILED /\ status /= B_FAILED
    \/ HasGraph /\ \E i \in TaskIx : Tasks'[i].status = FAILED /\ Tasks[i].status /= FAILED

C34_FailureStep ==
    /\ HasGraph => task_graph' /= NoGraph /\ TaskIdsOf(Tasks') = TaskIdsOf(Tasks)
    /\ BecomesFailed => DOMAIN files \subseteq DOMAIN files'

C34_FailurePreserves == [][C34_FailureStep]_vars

\* style has failed after init wrote its files, and the build is failed
\* behind it with those files in the store
C34_Witness ==
    /\ HasGraph
    /\ status = B_FAILED
    /\ error = StuckError
    /\ Tasks[2].status = FAILED
    /\ DOMAIN files = {File2("index.html"), File3("styles", "theme.css")}
    /\ Emitted("task_failed")

\* ---- C35: provided every worker call returns, every run of the execution
\* loop ends, also when RetryTask or RegenerateSection executes a task
\* beside it: an iteration starts a task or ends the loop, so the loop
\* never iterates for ever, without suspending, while the only unfinished
\* task is running under another operation.
C35_LoopNeverSpins == \A l \in 1..Len(loops) : loops[l].pc /= "spin"

\* ---- C36: whenever a build with a task graph is failed and no task
\* execution is in flight, at least one of its tasks is failed (so RetryTask
\* on it is accepted and the build can be resumed), after any sequence of
\* StartBuild, RetryTask and RegenerateSection calls.
NothingInFlight == \A i \in TaskIx : InFlight(i) = 0

C36_FailedHasFailedTask ==
    HasGraph /\ status = B_FAILED /\ NothingInFlight =>
        \E i \in TaskIx : Tasks[i].status = FAILED

\* ---- C37: at most one run of the execution loop is in its task-dispatch
\* phase (started, the build's terminal status not yet decided) at any time,
\* under any interleaving of RetryTask and RegenerateSection with the loop.
Dispatching == {l \in 1..Len(loops) : loops[l].pc \in {"worker", "spin"}}

Unfinished == {l \in 1..Len(loops) : loops[l].pc /= "done"}

C37_OneLoopDispatching ==
    /\ Cardinality(Dispatching) <= 1
    /\ Cardinality(Unfinished) <= 1

\* a second run, made by RetryTask on a failed build, dispatches a task
\* after the first run has ended
C37_Witness ==
    /\ Len(loops) = 2
    /\ loops[1].pc = "done"
    /\ loops[2].pc = "worker"
    /\ status = B_BUILDING

\* ---- C38: the build carries an error message only while it is failed:
\* status building or completed implies that the error is absent, also after
\* RetryTask has put a failed build back to building and the resumed loop
\* has completed it.
C38_ErrorOnlyWhenFailed == status \in {B_BUILDING, B_COMPLETED} => error = None

\* ---- C39: in every state with no task execution in flight, every path in
\* the output list of a completed task exists in the File Store, after any
\* sequence of loop steps, RetryTask and RegenerateSection calls (also when
\* two tasks write the same path).
C39_OutputsExist ==
    HasGraph /\ NothingInFlight =>
        \A i \in TaskIx :
            Tasks[i].status = COMPLETED =>
                \A p \in Range(Tasks[i].output_files) : vfs_exists(files, p)

\* ---- C40: after Unsubscribe(buildId, cb) has returned, cb is invoked for
\* no event of the build whose emission starts afterwards, even if cb had
\* been subscribed more than once; the registrations of other callbacks and
\* of other builds are unchanged, and Unsubscribe of a callback that is not
\* registered changes nothing.
Registered(list, c) == \E k \in 1..Len(list) : list[k].id = c

C40_UnsubscribeStep ==
    /\ returned' /= NoRet /\ returned'.op = "unsubscribe" =>
          /\ returned'.build_id = BuildId =>
                /\ ~Registered(listeners', returned'.task_id)
                /\ listeners' = SelectSeq(listeners, LAMBDA x : x.id /= returned'.task_id)
          /\ returned'.build_id /= BuildId => listeners' = listeners
          /\ ~Registered(listeners, returned'.task_id) => listeners' = listeners
          /\ received' = received
          /\ UNCHANGED <<builds, status, error, task_graph, files, loops>>
    /\ \A c \in CallbackIds :
          received'[c] /= received[c] =>
              \/ Registered(listeners, c)
              \/ /\ Len(listeners') = Len(listeners) + 1
                 /\ listeners'[Len(listeners')].id = c
                 /\ received'[c] = Append(received[c], received'[c][Len(received'[c])])
                 /\ received'[c][Len(received'[c])].type = "subscribed"

C40_UnsubscribeStops == [][C40_UnsubscribeStep]_vars

\* a callback subscribed twice and then unsubscribed has not been called
\* with the events of the tasks that ran afterwards
C40_Witness ==
    /\ listeners = <<>>
    /\ Len(received["s1"]) = 2
    /\ received["s1"][1].type = "subscribed"
    /\ received["s1"][2].type = "subscribed"
    /\ Emitted("task_completed")

====
